---- MODULE Spec2Model ----
(***************************************************************************)
(* Model of src/benchmark.py: the KVDB benchmark harness.                  *)
(*                                                                         *)
(* main() is a straight-line program; every action below is one step of   *)
(* it, guarded by the program position pc.  The child processes of the    *)
(* database binary and the wall clock are the environment.                 *)
(*                                                                         *)
(* Units: the clock and the recorded times insert_time, total_time and    *)
(* search_time are whole seconds; avg_search_time is held in              *)
(* milliseconds, the unit in which line 120 prints it.                    *)
(***************************************************************************)
EXTENDS Integers, Sequences, FiniteSets, TLC

VARIABLES
    pc,               \* position in main()
    exit_status,      \* exit status of the harness, -1 while it runs
    binary_exists,    \* whether BINARY_PATH can be executed
    clock,            \* time.time(), whole seconds
    rng,              \* state of numpy's global random generator
    procs,            \* every child process spawned so far, in order
    stdout,           \* what the harness printed, one tag per print call
    vectors,          \* line 48
    insert_commands,  \* line 57
    query_vectors,    \* line 86
    all_commands,     \* line 89
    start_insert,     \* line 63
    insert_time,      \* line 72
    start_total,      \* line 99
    total_time,       \* line 108
    search_time,      \* line 116
    avg_search_time   \* line 117, in milliseconds

vars == <<pc, exit_status, binary_exists, clock, rng, procs, stdout, vectors,
          insert_commands, query_vectors, all_commands, start_insert,
          insert_time, start_total, total_time, search_time, avg_search_time>>

-----------------------------------------------------------------------------
(* Configuration and bounds *)

NUM_VECTORS == 2      \* line 18, scaled down
DIMENSION == 2        \* line 19, scaled down
NUM_QUERIES == 100    \* the literal 100 of lines 86, 117, 121 and 139
MaxTime == 8          \* last reading of the clock, seconds
MaxSeed == 1          \* initial states of the random generator: 0..MaxSeed

BINARY_PATH == "./target/release/kvdb"

-----------------------------------------------------------------------------
(* Vector generator *)

\* The generator's state after n draws from state s (stands for numpy's
\* generator: the harness never seeds it, so the initial state is arbitrary).
RngAdvance(s, n) == (s + n) % 16

\* The float32 drawn in state s, in halves: -1 is -0.5, 0 is 0.0, 1 is 0.5.
RngSample(s) == ((s * s + s \div 3) % 3) - 1

\* np.random.randn(dim).astype(np.float32), drawn from generator state s.
generate_random_vector(s, dim) ==
    [j \in 1..dim |-> RngSample(RngAdvance(s, j - 1))]

-----------------------------------------------------------------------------
(* Protocol encoder.  A string is a sequence of tokens; " " and "\n" are  *)
(* tokens of their own.                                                    *)

\* str() of a float32 held in halves.
Str(x) == CASE x = -1 -> "-0.5"
            [] x = 0  -> "0.0"
            [] x = 1  -> "0.5"

RECURSIVE Join(_, _)
\* sep.join(parts), parts a sequence of tokens
Join(sep, parts) ==
    IF Len(parts) = 0 THEN <<>>
    ELSE IF Len(parts) = 1 THEN <<parts[1]>>
    ELSE <<parts[1], sep>> \o Join(sep, Tail(parts))

format_vector(vec) == Join(" ", [j \in 1..Len(vec) |-> Str(vec[j])])

\* f"vec_{i}"
VecId(i) == "vec_" \o ToString(i)

\* f"insert {vec_id} {format_vector(vec)}\n"
InsertCmd(vec_id, vec) ==
    <<"insert", " ", vec_id, " ">> \o format_vector(vec) \o <<"\n">>

\* f"search {format_vector(query_vec)} --k_top 10\n"
SearchCmd(query_vec) ==
    <<"search", " ">> \o format_vector(query_vec) \o <<" ", "--k_top", " ", "10", "\n">>

ExitCmd == <<"exit", "\n">>

RECURSIVE ConcatRange(_, _, _)
\* commands[lo] ... commands[hi] joined, by halves
ConcatRange(commands, lo, hi) ==
    IF lo > hi THEN <<>>
    ELSE IF lo = hi THEN commands[lo]
    ELSE ConcatRange(commands, lo, (lo + hi) \div 2)
           \o ConcatRange(commands, (lo + hi) \div 2 + 1, hi)

\* ''.join(commands)
Concat(commands) == ConcatRange(commands, 1, Len(commands))

-----------------------------------------------------------------------------
(* Child processes *)

\* subprocess.Popen / subprocess.run: a fresh child of the binary.
\* returncode is -1 (None) until the child has exited; ran tells whether
\* the clock has moved on since the child came to life.
Popen(argv) ==
    [argv |-> argv, alive |-> TRUE, returncode |-> -1,
     stdin |-> <<>>, stdin_closed |-> FALSE, ran |-> FALSE]

\* The Python variable proc: the child spawned last.
proc == Len(procs)

Terminal == pc \in {"DONE", "ABORTED", "CRASHED"}

\* sys.exit(1) after the messages msgs
Abort(msgs) ==
    /\ stdout' = stdout \o msgs
    /\ pc' = "ABORTED"
    /\ exit_status' = 1

\* an exception nobody catches: traceback, exit status 1
Crash(msgs) ==
    /\ stdout' = stdout \o msgs
    /\ pc' = "CRASHED"
    /\ exit_status' = 1

-----------------------------------------------------------------------------
Init ==
    /\ pc = "start"
    /\ exit_status = -1
    /\ binary_exists \in BOOLEAN
    /\ clock = 0
    /\ rng \in 0..MaxSeed
    /\ procs = <<>>
    /\ stdout = <<>>
    /\ vectors = <<>>
    /\ insert_commands = <<>>
    /\ query_vectors = <<>>
    /\ all_commands = <<>>
    /\ start_insert = 0
    /\ insert_time = 0
    /\ start_total = 0
    /\ total_time = 0
    /\ search_time = 0
    /\ avg_search_time = 0

dataVars == <<vectors, insert_commands, query_vectors, all_commands>>
timeVars == <<start_insert, insert_time, start_total, total_time, search_time,
              avg_search_time>>

\* lines 31-36
Banner ==
    /\ pc = "start"
    /\ stdout' = stdout \o <<"banner">>
    /\ pc' = "precheck"
    /\ UNCHANGED <<exit_status, binary_exists, clock, rng, procs, dataVars, timeVars>>

-----------------------------------------------------------------------------
(* Pre-flight check, lines 38-44 *)

\* line 40: subprocess.run([BINARY_PATH, "count"], ...) starts the child;
\* a missing binary raises FileNotFoundError, handled at lines 41-44.
PrecheckSpawn ==
    /\ pc = "precheck"
    /\ IF binary_exists
       THEN /\ procs' = Append(procs, Popen(<<BINARY_PATH, "count">>))
            /\ pc' = "precheck_wait"
            /\ UNCHANGED <<stdout, exit_status>>
       ELSE /\ Abort(<<"error_no_binary", "hint_build">>)
            /\ UNCHANGED procs
    /\ UNCHANGED <<binary_exists, clock, rng, dataVars, timeVars>>

\* Variant of PrecheckWait: check=True left out, the status is not looked at.
PrecheckWait_IgnoreStatus ==
    /\ pc = "precheck_wait"
    /\ ~procs[proc].alive
    /\ pc' = "generate"
    /\ UNCHANGED <<stdout, exit_status, binary_exists, clock, rng, procs, dataVars,
                   timeVars>>

\* Variant of PrecheckWait: the pre-flight child is started but not waited for.
PrecheckWait_NoBlock ==
    /\ pc = "precheck_wait"
    /\ pc' = "generate"
    /\ UNCHANGED <<stdout, exit_status, binary_exists, clock, rng, procs, dataVars,
                   timeVars>>

\* line 40: subprocess.run blocks until the child has exited; check=True
\* raises CalledProcessError on a non-zero status, handled at lines 41-44.
PrecheckWait ==
    /\ pc = "precheck_wait"
    /\ ~procs[proc].alive
    /\ IF procs[proc].returncode = 0
       THEN /\ pc' = "generate"
            /\ UNCHANGED <<stdout, exit_status>>
       ELSE Abort(<<"error_no_binary", "hint_build">>)
    /\ UNCHANGED <<binary_exists, clock, rng, procs, dataVars, timeVars>>

-----------------------------------------------------------------------------
(* Workload generation, lines 46-53 *)

GenerateVectors ==
    /\ pc = "generate"
    /\ vectors' = [i \in 1..NUM_VECTORS |->
                     <<VecId(i - 1),
                       generate_random_vector(RngAdvance(rng, (i - 1) * DIMENSION),
                                              DIMENSION)>>]
    /\ rng' = RngAdvance(rng, NUM_VECTORS * DIMENSION)
    /\ stdout' = stdout \o <<"generating", "generated">>
    /\ pc' = "encode_insert"
    /\ UNCHANGED <<exit_status, binary_exists, clock, procs, insert_commands,
                   query_vectors, all_commands, timeVars>>

-----------------------------------------------------------------------------
(* Phase 1, lines 55-81 *)

\* lines 56-61
EncodeInsert ==
    /\ pc = "encode_insert"
    /\ insert_commands' =
         Append([i \in 1..Len(vectors) |-> InsertCmd(vectors[i][1], vectors[i][2])],
                ExitCmd)
    /\ stdout' = stdout \o <<"phase1">>
    /\ pc' = "start_insert"
    /\ UNCHANGED <<exit_status, binary_exists, clock, rng, procs, vectors,
                   query_vectors, all_commands, timeVars>>

\* line 63
StartInsert ==
    /\ pc = "start_insert"
    /\ start_insert' = clock
    /\ pc' = "popen_insert"
    /\ UNCHANGED <<exit_status, binary_exists, clock, rng, procs, stdout, dataVars,
                   insert_time, start_total, total_time, search_time, avg_search_time>>

\* lines 64-70
PopenInsert ==
    /\ pc = "popen_insert"
    /\ procs' = Append(procs, Popen(<<BINARY_PATH>>))
    /\ pc' = "write_insert"
    /\ UNCHANGED <<exit_status, binary_exists, clock, rng, stdout, dataVars, timeVars>>

\* proc.communicate(''.join(commands)), first part: the commands are joined
\* and the whole input goes to the pipe
CommunicateWrite(commands, next) ==
    /\ procs' = [procs EXCEPT ![proc].stdin = Concat(commands)]
    /\ pc' = next
    /\ UNCHANGED <<exit_status, binary_exists, clock, rng, stdout, dataVars, timeVars>>

\* proc.communicate, second part: the pipe is closed (end of input)
CommunicateClose(next) ==
    /\ procs' = [procs EXCEPT ![proc].stdin_closed = TRUE]
    /\ pc' = next
    /\ UNCHANGED <<exit_status, binary_exists, clock, rng, stdout, dataVars, timeVars>>

\* Variant of CommunicateWait: returns without waiting for the child.
CommunicateWait_NoBlock(next) ==
    /\ pc' = next
    /\ UNCHANGED <<exit_status, binary_exists, clock, rng, procs, stdout, dataVars,
                   timeVars>>

\* proc.communicate, last part: returns once the child has exited
CommunicateWait(next) ==
    /\ ~procs[proc].alive
    /\ pc' = next
    /\ UNCHANGED <<exit_status, binary_exists, clock, rng, procs, stdout, dataVars,
                   timeVars>>

\* line 71
WriteInsert == pc = "write_insert" /\ CommunicateWrite(insert_commands, "close_insert")
CloseInsert == pc = "close_insert" /\ CommunicateClose("wait_insert")
WaitInsert == pc = "wait_insert" /\ CommunicateWait("stop_insert")

\* line 72
StopInsert ==
    /\ pc = "stop_insert"
    /\ insert_time' = clock - start_insert
    /\ pc' = "check_insert"
    /\ UNCHANGED <<exit_status, binary_exists, clock, rng, procs, stdout, dataVars,
                   start_insert, start_total, total_time, search_time, avg_search_time>>

\* Variant of CheckInsert: the error is printed but sys.exit(1) is left out.
CheckInsert_NoExit ==
    /\ pc = "check_insert"
    /\ stdout' = IF procs[proc].returncode # 0
                 THEN stdout \o <<"error_insertion", "stderr_insert">>
                 ELSE stdout
    /\ pc' = "report_insert"
    /\ UNCHANGED <<exit_status, binary_exists, clock, rng, procs, dataVars, timeVars>>

\* lines 74-77
CheckInsert ==
    /\ pc = "check_insert"
    /\ IF procs[proc].returncode # 0
       THEN Abort(<<"error_insertion", "stderr_insert">>)
       ELSE /\ pc' = "report_insert"
            /\ UNCHANGED <<stdout, exit_status>>
    /\ UNCHANGED <<binary_exists, clock, rng, procs, dataVars, timeVars>>

\* Variant of ReportInsert: a search figure is printed along with the
\* phase-1 figures, before phase 2 has run.
ReportInsert_Early ==
    /\ pc = "report_insert"
    /\ IF insert_time = 0
       THEN Crash(<<"insert_time">>)
       ELSE /\ stdout' = stdout \o <<"insert_time", "insert_throughput", "search_time">>
            /\ pc' = "generate_queries"
            /\ UNCHANGED exit_status
    /\ UNCHANGED <<binary_exists, clock, rng, procs, dataVars, timeVars>>

\* lines 79-81; NUM_VECTORS / insert_time raises ZeroDivisionError at line 80
\* when insert_time is 0.0 (which takes a clock that stands still while the
\* phase-1 child runs)
ReportInsert ==
    /\ pc = "report_insert"
    /\ IF insert_time = 0
       THEN Crash(<<"insert_time">>)
       ELSE /\ stdout' = stdout \o <<"insert_time", "insert_throughput">>
            /\ pc' = "generate_queries"
            /\ UNCHANGED exit_status
    /\ UNCHANGED <<binary_exists, clock, rng, procs, dataVars, timeVars>>

-----------------------------------------------------------------------------
(* Phase 2, lines 83-113 *)

\* lines 84-86
GenerateQueries ==
    /\ pc = "generate_queries"
    /\ query_vectors' = [q \in 1..NUM_QUERIES |->
                           generate_random_vector(RngAdvance(rng, (q - 1) * DIMENSION),
                                                  DIMENSION)]
    /\ rng' = RngAdvance(rng, NUM_QUERIES * DIMENSION)
    /\ stdout' = stdout \o <<"phase2", "generating_queries">>
    /\ pc' = "encode_all"
    /\ UNCHANGED <<exit_status, binary_exists, clock, procs, vectors,
                   insert_commands, all_commands, timeVars>>

\* Variant of EncodeAll: the insert loop stops one vector short.
EncodeAll_ShortPrefix ==
    /\ pc = "encode_all"
    /\ all_commands' =
         Append([i \in 1..(Len(vectors) - 1) |-> InsertCmd(vectors[i][1], vectors[i][2])]
                  \o [q \in 1..Len(query_vectors) |-> SearchCmd(query_vectors[q])],
                ExitCmd)
    /\ pc' = "start_total"
    /\ UNCHANGED <<exit_status, binary_exists, clock, rng, procs, stdout, vectors,
                   insert_commands, query_vectors, timeVars>>

\* lines 88-96
EncodeAll ==
    /\ pc = "encode_all"
    /\ all_commands' =
         Append([i \in 1..Len(vectors) |-> InsertCmd(vectors[i][1], vectors[i][2])]
                  \o [q \in 1..Len(query_vectors) |-> SearchCmd(query_vectors[q])],
                ExitCmd)
    /\ pc' = "start_total"
    /\ UNCHANGED <<exit_status, binary_exists, clock, rng, procs, stdout, vectors,
                   insert_commands, query_vectors, timeVars>>

\* line 99
StartTotal ==
    /\ pc = "start_total"
    /\ start_total' = clock
    /\ pc' = "popen_all"
    /\ UNCHANGED <<exit_status, binary_exists, clock, rng, procs, stdout, dataVars,
                   start_insert, insert_time, total_time, search_time, avg_search_time>>

\* lines 100-106
PopenAll ==
    /\ pc = "popen_all"
    /\ procs' = Append(procs, Popen(<<BINARY_PATH>>))
    /\ pc' = "write_all"
    /\ UNCHANGED <<exit_status, binary_exists, clock, rng, stdout, dataVars, timeVars>>

\* line 107
WriteAll == pc = "write_all" /\ CommunicateWrite(all_commands, "close_all")
CloseAll == pc = "close_all" /\ CommunicateClose("wait_all")
WaitAll == pc = "wait_all" /\ CommunicateWait("stop_total")

\* line 108
StopTotal ==
    /\ pc = "stop_total"
    /\ total_time' = clock - start_total
    /\ pc' = "check_all"
    /\ UNCHANGED <<exit_status, binary_exists, clock, rng, procs, stdout, dataVars,
                   start_insert, insert_time, start_total, search_time, avg_search_time>>

\* Variant of CheckAll: the error is printed but sys.exit(1) is left out.
CheckAll_NoExit ==
    /\ pc = "check_all"
    /\ stdout' = IF procs[proc].returncode # 0
                 THEN stdout \o <<"error_search", "stderr">>
                 ELSE stdout
    /\ pc' = "derive"
    /\ UNCHANGED <<exit_status, binary_exists, clock, rng, procs, dataVars, timeVars>>

\* lines 110-113
CheckAll ==
    /\ pc = "check_all"
    /\ IF procs[proc].returncode # 0
       THEN Abort(<<"error_search", "stderr">>)
       ELSE /\ pc' = "derive"
            /\ UNCHANGED <<stdout, exit_status>>
    /\ UNCHANGED <<binary_exists, clock, rng, procs, dataVars, timeVars>>

-----------------------------------------------------------------------------
(* Derived metrics and report, lines 115-142 *)

\* Variant of Derive: the average is taken over the vectors, not the queries.
Derive_WrongDivisor ==
    /\ pc = "derive"
    /\ search_time' = total_time - insert_time
    /\ avg_search_time' = ((total_time - insert_time) * 1000) \div NUM_VECTORS
    /\ pc' = "report_search"
    /\ UNCHANGED <<exit_status, binary_exists, clock, rng, procs, stdout, dataVars,
                   start_insert, insert_time, start_total, total_time>>

\* lines 116-117; avg_search_time is kept in milliseconds (line 120)
Derive ==
    /\ pc = "derive"
    /\ search_time' = total_time - insert_time
    /\ avg_search_time' = ((total_time - insert_time) * 1000) \div NUM_QUERIES
    /\ pc' = "report_search"
    /\ UNCHANGED <<exit_status, binary_exists, clock, rng, procs, stdout, dataVars,
                   start_insert, insert_time, start_total, total_time>>

\* lines 119-122; 100 / search_time raises ZeroDivisionError at line 121
\* when search_time is 0.0
ReportSearch ==
    /\ pc = "report_search"
    /\ IF search_time = 0
       THEN Crash(<<"search_time", "avg_search_time">>)
       ELSE /\ stdout' = stdout \o <<"search_time", "avg_search_time", "search_throughput">>
            /\ pc' = "summary"
            /\ UNCHANGED exit_status
    /\ UNCHANGED <<binary_exists, clock, rng, procs, dataVars, timeVars>>

SummaryLines ==
    <<"summary_banner", "summary_size", "summary_dimension",
      "summary_insert_time", "summary_insert_throughput", "summary_insert_avg",
      "summary_search_time", "summary_search_avg", "summary_search_throughput",
      "summary_total_time">>

\* lines 124-142, then main() returns and the interpreter exits with 0.
\* insert_time and search_time are non-zero here (lines 80 and 121 passed).
Summary ==
    /\ pc = "summary"
    /\ stdout' = stdout \o SummaryLines
    /\ pc' = "DONE"
    /\ exit_status' = 0
    /\ UNCHANGED <<binary_exists, clock, rng, procs, dataVars, timeVars>>

-----------------------------------------------------------------------------
(* Environment *)

\* A child of the database binary exits, with any status.  Starting a
\* process and running it takes time: the clock has moved on since the spawn.
ChildExit ==
    /\ \E p \in 1..Len(procs), rc \in {0, 1} :
         /\ procs[p].alive
         /\ procs[p].ran
         /\ procs' = [procs EXCEPT ![p].alive = FALSE, ![p].returncode = rc]
    /\ UNCHANGED <<pc, exit_status, binary_exists, clock, rng, stdout, dataVars, timeVars>>

\* Wall-clock time passes (up to MaxTime, and in any case while a child
\* that has just been started runs).
Tick ==
    /\ ~Terminal
    /\ \/ clock < MaxTime
       \/ \E p \in 1..Len(procs) : procs[p].alive /\ ~procs[p].ran
    /\ clock' = clock + 1
    /\ procs' = [p \in 1..Len(procs) |->
                   IF procs[p].alive THEN [procs[p] EXCEPT !.ran = TRUE] ELSE procs[p]]
    /\ UNCHANGED <<pc, exit_status, binary_exists, rng, stdout, dataVars, timeVars>>

Harness ==
    \/ Banner \/ PrecheckSpawn \/ PrecheckWait \/ GenerateVectors
    \/ EncodeInsert \/ StartInsert \/ PopenInsert \/ WriteInsert \/ CloseInsert
    \/ WaitInsert \/ StopInsert \/ CheckInsert \/ ReportInsert
    \/ GenerateQueries \/ EncodeAll \/ StartTotal \/ PopenAll \/ WriteAll
    \/ CloseAll \/ WaitAll \/ StopTotal \/ CheckAll
    \/ Derive \/ ReportSearch \/ Summary

Next == Harness \/ ChildExit \/ Tick

Spec == Init /\ [][Next]_vars

\* The interpreter keeps running the harness, time passes, and (the
\* assumption of the termination claim) every spawned child eventually exits.
FairSpec == Spec /\ WF_vars(Harness) /\ WF_vars(ChildExit) /\ WF_vars(Tick)

-----------------------------------------------------------------------------
(* Vocabulary of the properties *)

PreflightArgv == <<BINARY_PATH, "count">>
PhaseArgv == <<BINARY_PATH>>

PreflightProcs == {p \in 1..Len(procs) : procs[p].argv = PreflightArgv}
PhaseProcs == {p \in 1..Len(procs) : procs[p].argv = PhaseArgv}

Exited(p) == ~procs[p].alive
Failed(p) == Exited(p) /\ procs[p].returncode # 0
Succeeded(p) == Exited(p) /\ procs[p].returncode = 0

Printed(tag) == \E i \in 1..Len(stdout) : stdout[i] = tag

\* C1: if the pre-flight call fails (binary missing, or non-zero exit status),
\* the run ends in ABORTED and no phase-1 or phase-2 child is ever spawned:
\* the pre-flight child is the only invocation there is.
C1_PreflightFailureStopsRun ==
    /\ ~binary_exists => procs = <<>> /\ pc \in {"start", "precheck", "ABORTED"}
    /\ \A p \in PreflightProcs :
         Failed(p) => /\ PhaseProcs = {}
                      /\ Len(procs) = 1
                      /\ pc \in {"precheck_wait", "ABORTED"}

C1_Witness ==
    /\ pc = "ABORTED"
    /\ Len(procs) = 1
    /\ procs[1].argv = PreflightArgv
    /\ Failed(1)

\* C2: a driver failure is terminal, with no retry: after a child has exited
\* non-zero no further child is spawned, and the invocations are, in order,
\* at most one pre-flight, one phase 1 and one phase 2.
C2_NoRetry ==
    /\ Len(procs) <= 3
    /\ \A p \in 1..Len(procs) :
         /\ procs[p].argv = (IF p = 1 THEN PreflightArgv ELSE PhaseArgv)
         /\ Failed(p) => p = Len(procs)
    /\ (Len(procs) = 3 /\ procs[3].stdin # <<>>) => procs[3].stdin # procs[2].stdin

C2_Witness ==
    /\ pc = "ABORTED"
    /\ Len(procs) = 2
    /\ Failed(2)

WaitingOn(p) ==
    CASE p = 1 -> {"precheck_wait"}
      [] p = 2 -> {"write_insert", "close_insert", "wait_insert", "stop_insert",
                   "check_insert"}
      [] p = 3 -> {"write_all", "close_all", "wait_all", "stop_total", "check_all"}

AnyFailure ==
    \/ ~binary_exists
    \/ \E p \in 1..Len(procs) : Failed(p)

\* C3: the harness exits with status 0 only when the pre-flight call and both
\* phases returned 0; a run in which one of them failed ends with a non-zero
\* status, and never goes on past the check of the failed child.
C3_FailureSurfaced ==
    /\ exit_status = 0 =>
         /\ Len(procs) = 3
         /\ \A p \in 1..3 : Succeeded(p)
    /\ Terminal => exit_status \in {0, 1}
    /\ (Terminal /\ AnyFailure) => exit_status = 1
    /\ \A p \in 1..Len(procs) : Failed(p) => pc \in WaitingOn(p) \cup {"ABORTED"}

C3_Witness ==
    /\ pc = "ABORTED"
    /\ exit_status = 1
    /\ Len(procs) = 3
    /\ Failed(3)

-----------------------------------------------------------------------------
(* Reading a command stream back, as the database process does *)

\* the number of lines of a stream: one per newline
NewlineCount(stream) == Cardinality({i \in 1..Len(stream) : stream[i] = "\n"})

\* the len tokens of stream that start at index start
Segment(stream, start, len) == SubSeq(stream, start, start + len - 1)

\* tokens of an insert line and of a search line
InsertLen == 4 + 2 * DIMENSION
SearchLen == 6 + 2 * DIMENSION

\* line is "insert <key> <f1> ... <fD>\n" for this key and vector
IsInsertLine(line, key, vec) ==
    /\ Len(line) = 4 + 2 * Len(vec)
    /\ line[1] = "insert" /\ line[2] = " " /\ line[3] = key
    /\ \A j \in 1..Len(vec) : line[2 + 2 * j] = " " /\ line[3 + 2 * j] = Str(vec[j])
    /\ line[Len(line)] = "\n"

\* line is "search <f1> ... <fD> --k_top 10\n" for some vector
IsSearchLine(line) ==
    /\ Len(line) = 6 + 2 * DIMENSION
    /\ line[1] = "search"
    /\ \A j \in 1..DIMENSION :
         line[2 * j] = " " /\ line[1 + 2 * j] \in {"-0.5", "0.0", "0.5"}
    /\ SubSeq(line, 2 + 2 * DIMENSION, Len(line)) = <<" ", "--k_top", " ", "10", "\n">>

\* stream starts with the N insert lines of vectors, keys vec_0..vec_{N-1}
IsInsertPrefix(stream) ==
    /\ Len(stream) >= NUM_VECTORS * InsertLen
    /\ Len(vectors) = NUM_VECTORS
    /\ \A i \in 1..NUM_VECTORS :
         /\ vectors[i][1] = "vec_" \o ToString(i - 1)
         /\ Len(vectors[i][2]) = DIMENSION
         /\ IsInsertLine(Segment(stream, (i - 1) * InsertLen + 1, InsertLen),
                         vectors[i][1], vectors[i][2])

\* C4: the stream written to the phase-1 process is the N insert lines
\* (keys vec_0..vec_{N-1}, in order) and one exit line; the stream written to
\* the phase-2 process is those same N insert lines, then exactly Q search
\* lines, then exactly one exit line, and nothing else.
C4_WorkloadStreams ==
    /\ (Len(procs) >= 2 /\ pc # "write_insert") =>
         LET s1 == procs[2].stdin IN
           /\ NewlineCount(s1) = NUM_VECTORS + 1
           /\ Len(s1) = NUM_VECTORS * InsertLen + 2
           /\ IsInsertPrefix(s1)
           /\ Segment(s1, NUM_VECTORS * InsertLen + 1, 2) = <<"exit", "\n">>
    /\ (Len(procs) = 3 /\ pc # "write_all") =>
         LET s1 == procs[2].stdin
             s2 == procs[3].stdin IN
           /\ NewlineCount(s2) = NUM_VECTORS + NUM_QUERIES + 1
           /\ Len(s2) = NUM_VECTORS * InsertLen + NUM_QUERIES * SearchLen + 2
           /\ IsInsertPrefix(s2)
           /\ Segment(s2, 1, NUM_VECTORS * InsertLen) = Segment(s1, 1, NUM_VECTORS * InsertLen)
           /\ \A q \in 1..NUM_QUERIES :
                IsSearchLine(Segment(s2, NUM_VECTORS * InsertLen + (q - 1) * SearchLen + 1,
                                     SearchLen))
           /\ Segment(s2, Len(s2) - 1, 2) = <<"exit", "\n">>

C4_Witness ==
    /\ Len(procs) = 3
    /\ procs[3].stdin_closed
    /\ NewlineCount(procs[3].stdin) = NUM_VECTORS + NUM_QUERIES + 1
    /\ \E i, j \in 1..NUM_VECTORS : vectors[i][2] # vectors[j][2]

\* C5: at most one child process is alive at any time, and the children are
\* spawned in the order pre-flight, phase 1, phase 2, each only after the one
\* before it has exited with status 0.
C5_Sequential ==
    /\ Cardinality({p \in 1..Len(procs) : procs[p].alive}) <= 1
    /\ \A p \in 1..Len(procs) :
         /\ procs[p].argv = (IF p = 1 THEN PreflightArgv ELSE PhaseArgv)
         /\ p < Len(procs) => Succeeded(p)
    /\ Len(procs) <= 3

C5_Witness ==
    /\ Len(procs) = 3
    /\ procs[3].alive
    /\ Succeeded(1) /\ Succeeded(2)

Derived == pc \in {"report_search", "summary", "DONE"}

\* C6: search_time = total_time - insert_time and avg_search_time =
\* search_time / Q; insert_time = 2 s, total_time = 5 s, Q = 100 gives
\* search_time = 3 s and avg_search_time = 30 ms.
C6_DerivedMetrics ==
    Derived =>
      /\ search_time = total_time - insert_time
      /\ avg_search_time * NUM_QUERIES = search_time * 1000
      /\ (insert_time = 2 /\ total_time = 5 /\ NUM_QUERIES = 100) =>
           (search_time = 3 /\ avg_search_time = 30)

C6_Witness ==
    /\ Derived
    /\ insert_time = 2 /\ total_time = 5
    /\ search_time = 3 /\ avg_search_time = 30

-----------------------------------------------------------------------------
InsertFigures == {"insert_time", "insert_throughput"}
SearchFigures == {"search_time", "avg_search_time", "search_throughput"}
SummaryFigures ==
    {"summary_insert_time", "summary_insert_throughput", "summary_insert_avg",
     "summary_search_time", "summary_search_avg", "summary_search_throughput",
     "summary_total_time"}
Figures == InsertFigures \cup SearchFigures \cup SummaryFigures

BothPhasesSucceeded == Len(procs) = 3 /\ Succeeded(2) /\ Succeeded(3)

\* C7 as stated: no throughput or latency figure has been written in a run
\* that ends in ABORTED.
C7_NoFigureWhenAborted ==
    pc = "ABORTED" => \A f \in Figures : ~Printed(f)

\* C7 as amended: a run that ends in ABORTED has written no search figure
\* and no figure of the summary, and none at all unless phase 1 succeeded;
\* when phase 2 fails, the phase-1 figures of lines 79-80 are already
\* written.  Search and summary figures are written only when both phases
\* succeeded.
C7_NoReportWhenAborted ==
    /\ pc = "ABORTED" =>
         /\ \A f \in SearchFigures \cup SummaryFigures : ~Printed(f)
         /\ (\E f \in InsertFigures : Printed(f)) => (Len(procs) = 3 /\ Succeeded(2) /\ Failed(3))
         /\ (Len(procs) = 3 /\ Failed(3)) => \A f \in InsertFigures : Printed(f)
    /\ (\E f \in SearchFigures \cup SummaryFigures : Printed(f)) => BothPhasesSucceeded
    /\ (\E f \in InsertFigures : Printed(f)) => (Len(procs) >= 2 /\ Succeeded(2))

C7_Witness ==
    /\ pc = "ABORTED"
    /\ Len(procs) = 3
    /\ Failed(3)
    /\ Printed("insert_throughput")

AllSucceeded == Len(procs) = 3 /\ \A p \in 1..3 : Succeeded(p)

\* C8: whenever the pre-flight check and both phases succeed, the run ends
\* in DONE with the complete report printed, whatever the two measured
\* times are (a zero or negative search_time included).
C8_ReportForEveryTimes ==
    (Terminal /\ AllSucceeded) =>
      /\ pc = "DONE"
      /\ \A f \in Figures : Printed(f)

InWindow1 == pc \in {"popen_insert", "write_insert", "close_insert", "wait_insert",
                     "stop_insert"}
InWindow2 == pc \in {"popen_all", "write_all", "close_all", "wait_all", "stop_total"}

\* what communicate has done to child p when the harness is at pc
CommunicateOrder(p, write, close, wait, input) ==
    /\ pc = write => (procs[p].stdin = <<>> /\ ~procs[p].stdin_closed)
    /\ pc # write => procs[p].stdin = Concat(input)
    /\ pc = close => ~procs[p].stdin_closed
    /\ pc \notin {write, close} => procs[p].stdin_closed
    /\ pc \notin {write, close, wait} => Exited(p)

\* C9: a timing window opens only when the whole workload of its phase is
\* generated and encoded, and closes only after the child has exited, so
\* the recorded time covers the life of the child; in the window the whole
\* workload is written, then the input stream is closed, then the exit is
\* waited for.
C9_TimingWindow ==
    /\ (InWindow1 \/ Len(procs) >= 2) =>
         /\ Len(vectors) = NUM_VECTORS
         /\ Len(insert_commands) = NUM_VECTORS + 1
         /\ start_insert <= clock
    /\ Len(procs) >= 2 =>
         /\ CommunicateOrder(2, "write_insert", "close_insert", "wait_insert", insert_commands)
         /\ ~InWindow1 => (insert_time >= 1 /\ start_insert + insert_time <= clock)
    /\ (InWindow2 \/ Len(procs) = 3) =>
         /\ Len(query_vectors) = NUM_QUERIES
         /\ Len(all_commands) = NUM_VECTORS + NUM_QUERIES + 1
         /\ start_total <= clock
    /\ Len(procs) = 3 =>
         /\ CommunicateOrder(3, "write_all", "close_all", "wait_all", all_commands)
         /\ ~InWindow2 => (total_time >= 1 /\ start_total + total_time <= clock)
    /\ pc \in {"encode_insert", "generate", "generate_queries", "encode_all"} =>
         \A p \in 1..Len(procs) : Exited(p)

C9_Witness ==
    /\ pc = "check_all"
    /\ total_time >= 1
    /\ insert_time >= 1
    /\ procs[3].stdin_closed
    /\ Exited(3)

\* C10: if every spawned child eventually exits, every run eventually
\* reaches DONE or ABORTED.  Under the fairness of FairSpec a run goes on
\* for as long as a step is possible, so this is: a run can stop only in
\* DONE or in ABORTED.
C10_ReachesDoneOrAborted == pc \in {"DONE", "ABORTED"} \/ ENABLED Next

====
